---- MODULE Spec2Model ----
(***************************************************************************)
(* A model of AIVideoGenerator (src/main.py): the generate_video pipeline  *)
(* as a state machine, and the pure per-frame transforms (zoom_in,         *)
(* pan_right) and the base-colour derivation as operators.                 *)
(*                                                                         *)
(* Conventions.                                                            *)
(*  - Python's Optional is a sequence of length 0 (None) or 1 (Some(x)).   *)
(*  - Scene, prompt and list indexes are 0-based as in the source; the     *)
(*    entry with index i of a Python list l is l[i + 1] here.              *)
(*  - Times and durations are whole ticks; t / duration is the exact       *)
(*    rational (floating-point rounding is not modelled), and int(x) of a  *)
(*    non-negative x is the floor.                                         *)
(*  - The video, audio and speech libraries are modelled by what the code  *)
(*    relies on: a clip built by set_audio keeps the audio it is given,    *)
(*    concatenation starts each clip where the clips before it end, and a  *)
(*    composite audio clip lasts until its last layer ends.                *)
(***************************************************************************)
EXTENDS Integers, Sequences, FiniteSets, TLC

VARIABLES
    \* ---- arguments of generate_video (camera_effects and visual_effects
    \*      are rebound by the defaults at the top of the function)
    prompts, scene_duration, text_overlays, camera_effects, visual_effects,
    background_music, voice_over_texts,
    \* ---- the filesystem: the duration of the file at the background_music
    \*      path (None when no such file exists) and the voice files of
    \*      temp_dir, keyed by the index in their name voice_<i>.mp3
    music_file, temp_dir,
    \* ---- locals of generate_video
    pc, i, voice_files, image_paths, clips, final_clip, music,
    \* ---- observation: final_clip.audio when the music block is entered,
    \*      the number of write_videofile calls, and the returned value
    audio_before, exports, returned,
    \* ---- one call of a pure function: zoom_in, pan_right, base_color
    zoom_call, pan_call, color_call

pipeline_vars == <<prompts, scene_duration, text_overlays, camera_effects,
                   visual_effects, background_music, voice_over_texts,
                   music_file, temp_dir, pc, i, voice_files, image_paths, clips,
                   final_clip, music, audio_before, exports, returned>>

vars == <<prompts, scene_duration, text_overlays, camera_effects,
          visual_effects, background_music, voice_over_texts,
          music_file, temp_dir, pc, i, voice_files, image_paths, clips,
          final_clip, music, audio_before, exports, returned,
          zoom_call, pan_call, color_call>>

----------------------------------------------------------------------------
\* Bounds of the model.

MaxPrompts == 2

MaxList == 2

MaxVoice == 3

MaxVoiceDur == 2

MaxMusicDur == 3

MaxSceneDur == 2

----------------------------------------------------------------------------
\* Python values.

None == <<>>

Some(x) == <<x>>

\* Python truthiness of an Optional[List]: None and [] are falsy.
Truthy(opt) == opt # None /\ Len(opt[1]) > 0

Lists(V, n) == UNION {[1..k -> V] : k \in 0..n}

OptLists(V, n) == {None} \cup {Some(l) : l \in Lists(V, n)}

Repeat(v, n) == [k \in 1..n |-> v]

OverlayTexts == {"", "caption"}

VisualEffects == {"blur", "vignette"}

CameraEffects == {"pan", "static"}

VoiceTexts == {"", "say"}

----------------------------------------------------------------------------
\* text_to_speech: the outcome of driving the engine is the environment's;
\* the function turns every failure into the return value False.

TtsOutcomes == {"ok", "import_error", "runtime_error"}

\* text_to_speech without its except Exception clause.
text_to_speech_Uncaught(outcome) ==
    CASE outcome = "ok" -> "True"
      [] outcome = "import_error" -> "False"
      [] outcome = "runtime_error" -> "raise"

text_to_speech(outcome) ==
    CASE outcome = "ok" -> "True"
      [] outcome = "import_error" -> "False"
      [] outcome = "runtime_error" -> "False"

----------------------------------------------------------------------------
\* generate_video, lines 209-218: defaults and voice_files = [].

Start ==
    /\ pc = "start"
    /\ camera_effects' = IF camera_effects = None
                         THEN Some(Repeat("zoom", Len(prompts)))
                         ELSE camera_effects
    /\ visual_effects' = IF visual_effects = None
                         THEN Some(Repeat("gradient", Len(prompts)))
                         ELSE visual_effects
    /\ voice_files' = <<>>
    /\ i' = 0
    /\ pc' = IF Truthy(voice_over_texts) THEN "voice" ELSE "images"
    /\ UNCHANGED <<prompts, scene_duration, text_overlays, background_music,
                   voice_over_texts, music_file, temp_dir, image_paths, clips,
                   final_clip, music, audio_before, exports, returned,
                   zoom_call, pan_call, color_call>>

\* The loop appending nothing for an entry that yields no voice file.
VoiceFilesAppend_SkipFailed(files, index, result) ==
    IF result = "True" THEN Append(files, Some(index)) ELSE files

\* What one iteration of the voice-over loop appends to voice_files: the
\* path voice_<index>.mp3 when text_to_speech returned True, None otherwise.
VoiceFilesAppend(files, index, result) ==
    IF result = "True" THEN Append(files, Some(index))
    ELSE Append(files, None)

\* Lines 221-230: one iteration of the voice-over loop, for entry i. When
\* the list is exhausted the image loop starts at index 0.
VoiceOverStep ==
    /\ pc = "voice"
    /\ LET voice_text == voice_over_texts[1][i + 1]
           more == i + 1 < Len(voice_over_texts[1])
       IN  IF voice_text # ""
           THEN \E outcome \in TtsOutcomes :
                   LET result == text_to_speech(outcome)
                   IN  /\ temp_dir' = IF outcome = "ok"
                                      THEN [temp_dir EXCEPT ![i] = Some(i)]
                                      ELSE temp_dir
                       /\ IF result \in {"True", "False"}
                          THEN /\ voice_files' =
                                    VoiceFilesAppend(voice_files, i, result)
                               /\ pc' = IF more THEN "voice" ELSE "images"
                               /\ i' = IF more THEN i + 1 ELSE 0
                          ELSE /\ voice_files' = voice_files
                               /\ pc' = "raised"
                               /\ i' = i
           ELSE /\ voice_files' = Append(voice_files, None)
                /\ temp_dir' = temp_dir
                /\ pc' = IF more THEN "voice" ELSE "images"
                /\ i' = IF more THEN i + 1 ELSE 0
    /\ UNCHANGED <<prompts, scene_duration, text_overlays, camera_effects,
                   visual_effects, background_music, voice_over_texts,
                   music_file, image_paths, clips, final_clip, music,
                   audio_before, exports, returned,
                   zoom_call, pan_call, color_call>>

----------------------------------------------------------------------------
\* Lines 236, 237 and 246: the per-index entries of the parallel lists.

OverlayAt(index) ==
    IF Truthy(text_overlays) /\ index < Len(text_overlays[1])
    THEN Some(text_overlays[1][index + 1]) ELSE None

\* The fallback of line 237 taken for the default of line 215.
VisualEffectAt_GradientDefault(index) ==
    IF index < Len(visual_effects[1]) THEN visual_effects[1][index + 1]
    ELSE "gradient"

VisualEffectAt(index) ==
    IF index < Len(visual_effects[1]) THEN visual_effects[1][index + 1]
    ELSE "none"

CameraEffectAt(index) ==
    IF index < Len(camera_effects[1]) THEN camera_effects[1][index + 1]
    ELSE "zoom"

\* generate_image_from_prompt: the frame written to temp_dir/scene_<index>.png.
generate_image_from_prompt(prompt, index, text_overlay, visual_effect) ==
    [index |-> index, prompt |-> prompt,
     overlay |-> text_overlay, visual |-> visual_effect]

\* create_scene: the clip of a still frame, without audio.
create_scene(image, duration, effect) ==
    [image |-> image.index, duration |-> duration, camera |-> effect,
     overlay |-> image.overlay, visual |-> image.visual, audio |-> None]

\* The clip loop entered after the first image.
AfterImage_Early(n) == "clips"

\* Where control goes when n images have been generated: the clip loop
\* starts only when the image loop has run for every prompt.
AfterImage(n) == IF n < Len(prompts) THEN "images" ELSE "clips"

\* Lines 235-240: one iteration of the image loop.
GenerateImageStep ==
    /\ pc = "images"
    /\ i < Len(prompts)
    /\ LET overlay == OverlayAt(i)
           effect == VisualEffectAt(i)
       IN  /\ image_paths' = Append(image_paths,
                 generate_image_from_prompt(prompts[i + 1], i, overlay, effect))
           /\ pc' = AfterImage(i + 1)
           /\ i' = IF AfterImage(i + 1) = "images" THEN i + 1 ELSE 0
    /\ UNCHANGED <<prompts, scene_duration, text_overlays, camera_effects,
                   visual_effects, background_music, voice_over_texts,
                   music_file, temp_dir, voice_files, clips, final_clip, music,
                   audio_before, exports, returned,
                   zoom_call, pan_call, color_call>>

\* Line 250: whether scene i has a voice file to attach.
HasVoiceFile(index) ==
    /\ voice_files # <<>>
    /\ index < Len(voice_files)
    /\ voice_files[index + 1] # None

\* Lines 245-257: one iteration of the clip loop. AudioFileClip either
\* raises, which is caught, or yields the audio of the file with its own
\* duration; set_audio attaches it to the clip as it is.
CreateClipStep ==
    /\ pc = "clips"
    /\ i < Len(image_paths)
    /\ LET clip == create_scene(image_paths[i + 1], scene_duration,
                                CameraEffectAt(i))
       IN  /\ IF HasVoiceFile(i)
              THEN \E load \in {0} \cup (1..MaxVoiceDur) :
                      LET path == voice_files[i + 1][1]
                      IN  IF load = 0 \/ temp_dir[path] = None
                          THEN clips' = Append(clips, clip)
                          ELSE clips' = Append(clips,
                                 [clip EXCEPT !.audio =
                                     Some([src |-> temp_dir[path][1],
                                           dur |-> load])])
              ELSE clips' = Append(clips, clip)
           /\ pc' = IF i + 1 < Len(image_paths) THEN "clips" ELSE "concat"
           /\ i' = i + 1
    /\ UNCHANGED <<prompts, scene_duration, text_overlays, camera_effects,
                   visual_effects, background_music, voice_over_texts,
                   music_file, temp_dir, voice_files, image_paths, final_clip,
                   music, audio_before, exports, returned,
                   zoom_call, pan_call, color_call>>

----------------------------------------------------------------------------
\* Audio tracks: a set of layers, each with a start and a duration.

RECURSIVE SumDurations(_, _)
SumDurations(cs, k) ==
    IF k = 0 THEN 0 ELSE SumDurations(cs, k - 1) + cs[k].duration

Max(S) == CHOOSE x \in S : \A y \in S : y <= x

\* The duration of a composite audio clip: the latest end of its layers.
AudioDuration(layers) == Max({l.start + l.dur : l \in layers})

\* concatenate_videoclips(clips, method="compose"): clip k starts where the
\* clips before it end, and carries its audio with it.
concatenate_videoclips(cs) ==
    LET narrated == {k \in 1..Len(cs) : cs[k].audio # None}
    IN  [duration |-> SumDurations(cs, Len(cs)),
         clips |-> cs,
         audio |-> IF narrated = {} THEN None
                   ELSE Some({[kind |-> "narration",
                               src |-> cs[k].audio[1].src,
                               start |-> SumDurations(cs, k - 1),
                               dur |-> cs[k].audio[1].dur] : k \in narrated})]

\* Line 261.
Concatenate ==
    /\ pc = "concat"
    /\ final_clip' = Some(concatenate_videoclips(clips))
    /\ pc' = "music"
    /\ UNCHANGED <<i, prompts, scene_duration, text_overlays, camera_effects,
                   visual_effects, background_music, voice_over_texts,
                   music_file, temp_dir, voice_files, image_paths, clips,
                   music, audio_before, exports, returned,
                   zoom_call, pan_call, color_call>>

----------------------------------------------------------------------------
\* Background music, lines 264-286. The body of the try block is four steps,
\* each of which may raise; the except clause prints and falls through to
\* the export.

\* The try block without its except clause.
MusicExceptPc_Uncaught == "raised"

\* Where control goes when a step of the try block raises.
MusicExceptPc == "export"

\* AudioFileClip(background_music).
AudioFileClip(dur) == [dur |-> dur, loops |-> 1, scaled |-> FALSE]

\* music.audio_loop(duration=d): the music repeated and cut at d.
audio_loop(m, d) ==
    [m EXCEPT !.dur = d, !.loops = (d + m.dur - 1) \div m.dur]

\* music.subclip(0, t_end).
subclip(m, t_end) == [m EXCEPT !.dur = t_end]

\* Lines 270-273.
FitMusic(m, d) == IF m.dur < d THEN audio_loop(m, d) ELSE subclip(m, d)

MusicLayer(m) ==
    [kind |-> "music", src |-> 0 - 1, start |-> 0, dur |-> m.dur]

\* set_audio(music) whatever the timeline carries.
MixAudio_Replace(audio, m) == Some({MusicLayer(m)})

\* Lines 279-283: CompositeAudioClip([final_clip.audio, music]) when the
\* timeline has audio, the music alone otherwise.
MixAudio(audio, m) ==
    IF audio # None THEN Some(audio[1] \cup {MusicLayer(m)})
    ELSE Some({MusicLayer(m)})

\* Line 264.
MusicCheck ==
    /\ pc = "music"
    /\ audio_before' = final_clip[1].audio
    /\ pc' = IF background_music # None /\ music_file # None
             THEN "music_load" ELSE "export"
    /\ UNCHANGED <<i, prompts, scene_duration, text_overlays, camera_effects,
                   visual_effects, background_music, voice_over_texts,
                   music_file, temp_dir, voice_files, image_paths, clips,
                   final_clip, music, exports, returned,
                   zoom_call, pan_call, color_call>>

\* Line 267.
MusicLoad ==
    /\ pc = "music_load"
    /\ \E raises \in BOOLEAN :
          IF raises
          THEN /\ pc' = MusicExceptPc
               /\ music' = music
          ELSE /\ pc' = "music_fit"
               /\ music' = Some(AudioFileClip(music_file[1]))
    /\ UNCHANGED <<i, prompts, scene_duration, text_overlays, camera_effects,
                   visual_effects, background_music, voice_over_texts,
                   music_file, temp_dir, voice_files, image_paths, clips,
                   final_clip, audio_before, exports, returned,
                   zoom_call, pan_call, color_call>>

\* Lines 270-273.
MusicFit ==
    /\ pc = "music_fit"
    /\ \E raises \in BOOLEAN :
          IF raises
          THEN /\ pc' = MusicExceptPc
               /\ music' = music
          ELSE /\ pc' = "music_volume"
               /\ music' = Some(FitMusic(music[1], final_clip[1].duration))
    /\ UNCHANGED <<i, prompts, scene_duration, text_overlays, camera_effects,
                   visual_effects, background_music, voice_over_texts,
                   music_file, temp_dir, voice_files, image_paths, clips,
                   final_clip, audio_before, exports, returned,
                   zoom_call, pan_call, color_call>>

\* Line 276: volumex keeps the duration.
MusicVolume ==
    /\ pc = "music_volume"
    /\ \E raises \in BOOLEAN :
          IF raises
          THEN /\ pc' = MusicExceptPc
               /\ music' = music
          ELSE /\ pc' = "music_mix"
               /\ music' = Some([music[1] EXCEPT !.scaled = TRUE])
    /\ UNCHANGED <<i, prompts, scene_duration, text_overlays, camera_effects,
                   visual_effects, background_music, voice_over_texts,
                   music_file, temp_dir, voice_files, image_paths, clips,
                   final_clip, audio_before, exports, returned,
                   zoom_call, pan_call, color_call>>

\* Lines 279-283: final_clip is rebound only by the last statement of the
\* try block, so a failure leaves it as it was.
MusicMix ==
    /\ pc = "music_mix"
    /\ \E raises \in BOOLEAN :
          IF raises
          THEN /\ pc' = MusicExceptPc
               /\ final_clip' = final_clip
          ELSE /\ pc' = "export"
               /\ final_clip' =
                    Some([final_clip[1] EXCEPT
                            !.audio = MixAudio(final_clip[1].audio, music[1])])
    /\ UNCHANGED <<i, prompts, scene_duration, text_overlays, camera_effects,
                   visual_effects, background_music, voice_over_texts,
                   music_file, temp_dir, voice_files, image_paths, clips,
                   music, audio_before, exports, returned,
                   zoom_call, pan_call, color_call>>

\* Lines 289-299: write_videofile, then return str(output_path).
Export ==
    /\ pc = "export"
    /\ exports' = exports + 1
    /\ returned' = Some("output_path")
    /\ pc' = "done"
    /\ UNCHANGED <<i, prompts, scene_duration, text_overlays, camera_effects,
                   visual_effects, background_music, voice_over_texts,
                   music_file, temp_dir, voice_files, image_paths, clips,
                   final_clip, music, audio_before,
                   zoom_call, pan_call, color_call>>

----------------------------------------------------------------------------
\* The state at the call of generate_video. A generation needs at least one
\* prompt (the concatenation of no clips raises before anything is exported)
\* and a positive scene duration.

InitCall(Overlays, Visuals, Cameras, Voices, Durations, MusicFiles) ==
    /\ prompts \in {[k \in 1..n |-> k] : n \in 1..MaxPrompts}
    /\ scene_duration \in Durations
    /\ text_overlays \in Overlays
    /\ visual_effects \in Visuals
    /\ camera_effects \in Cameras
    /\ voice_over_texts \in Voices
    /\ background_music \in {None, Some("music.mp3")}
    /\ music_file \in MusicFiles
    /\ background_music = None => music_file = None
    /\ temp_dir = [k \in 0..(MaxVoice - 1) |-> None]
    /\ pc = "start"
    /\ i = 0
    /\ voice_files = <<>>
    /\ image_paths = <<>>
    /\ clips = <<>>
    /\ final_clip = None
    /\ music = None
    /\ audio_before = None
    /\ exports = 0
    /\ returned = None
    /\ zoom_call = None
    /\ pan_call = None
    /\ color_call = None

\* Calls that vary narration, music and timing.
Init ==
    InitCall({None, Some(<<"caption">>)},
             {None},
             {Some(<<"pan">>)},
             OptLists(VoiceTexts, MaxVoice),
             1..MaxSceneDur,
             {None} \cup {Some(d) : d \in 1..MaxMusicDur})

\* Calls that vary the parallel lists of overlays and effects.
InitScenes ==
    InitCall(OptLists(OverlayTexts, MaxList),
             OptLists(VisualEffects, MaxList),
             OptLists(CameraEffects, MaxList),
             {Some(<<"say">>)},
             {1},
             {None, Some(1)})

Next ==
    \/ Start
    \/ VoiceOverStep
    \/ GenerateImageStep
    \/ CreateClipStep
    \/ Concatenate
    \/ MusicCheck
    \/ MusicLoad
    \/ MusicFit
    \/ MusicVolume
    \/ MusicMix
    \/ Export

Spec == Init /\ [][Next]_vars

SpecScenes == InitScenes /\ [][Next]_vars

----------------------------------------------------------------------------
\* The pure functions. Each has a specification of its own that draws the
\* arguments of one call and applies the function; generate_video is not
\* running in them.

PipelineIdle ==
    /\ prompts = <<>>
    /\ scene_duration = 1
    /\ text_overlays = None
    /\ visual_effects = None
    /\ camera_effects = None
    /\ voice_over_texts = None
    /\ background_music = None
    /\ music_file = None
    /\ temp_dir = [k \in 0..(MaxVoice - 1) |-> None]
    /\ pc = "idle"
    /\ i = 0
    /\ voice_files = <<>>
    /\ image_paths = <<>>
    /\ clips = <<>>
    /\ final_clip = None
    /\ music = None
    /\ audio_before = None
    /\ exports = 0
    /\ returned = None

\* The frame of generate_image_from_prompt, Image.new('RGB', (1920, 1080)).
FrameW == 1920

FrameH == 1080

MaxDim == 6

MaxWidth == 24

MaxDuration == 3

\* ---- zoom_in, lines 129-137.

\* The factor shrinking instead of growing.
ZoomFactor_Out(t, duration) == <<5 * duration - t, 5 * duration>>

\* zoom_factor = 1 + (t / duration) * 0.2, as the fraction <<num, den>>.
ZoomFactor(t, duration) == <<5 * duration + t, 5 * duration>>

\* The crop window of zoom_in for an h x w frame at time t.
zoom_in(h, w, t, duration) ==
    LET z == ZoomFactor(t, duration)
        new_h == (h * z[2]) \div z[1]
        new_w == (w * z[2]) \div z[1]
    IN  [zoom_factor |-> z, new_h |-> new_h, new_w |-> new_w,
         top |-> (h - new_h) \div 2, left |-> (w - new_w) \div 2]

InitZoom ==
    /\ PipelineIdle
    /\ zoom_call \in
         {Some([h |-> h, w |-> w, duration |-> d, t |-> t, out |-> None]) :
            h \in (1..MaxDim) \cup {FrameH}, w \in (1..MaxDim) \cup {FrameW},
            d \in 1..MaxDuration, t \in 0..MaxDuration}
    /\ zoom_call[1].t <= zoom_call[1].duration
    /\ pan_call = None
    /\ color_call = None

ZoomIn ==
    /\ zoom_call # None
    /\ zoom_call[1].out = None
    /\ LET c == zoom_call[1]
       IN  zoom_call' =
             Some([c EXCEPT !.out = Some(zoom_in(c.h, c.w, c.t, c.duration))])
    /\ UNCHANGED <<pipeline_vars, pan_call, color_call>>

SpecZoom == InitZoom /\ [][ZoomIn]_vars

\* ---- pan_right, lines 141-147.

\* shift = int((t / duration) * w * 0.1).
PanShift(t, duration, w) == (t * w) \div (10 * duration)

\* A shift that blanks the vacated columns instead of wrapping.
np_roll_Blank(a, k) ==
    [j \in 1..Len(a) |->
        IF j - 1 - k \in 0..(Len(a) - 1) THEN a[j - k] ELSE 0]

\* np.roll(a, k) along the columns: the column at position j moves to
\* position j + k, cyclically.
np_roll(a, k) == [j \in 1..Len(a) |-> a[((j - 1 - k) % Len(a)) + 1]]

pan_right(frame, t, duration) ==
    LET w == Len(frame)
        shift == PanShift(t, duration, w)
    IN  [shift |-> shift,
         frame |-> IF shift > 0 THEN np_roll(frame, 0 - shift) ELSE frame]

InitPan ==
    /\ PipelineIdle
    /\ pan_call \in
         {Some([frame |-> [j \in 1..w |-> j], duration |-> d, t |-> t,
                out |-> None]) :
            w \in (1..MaxWidth) \cup {FrameW},
            d \in 1..MaxDuration, t \in 0..MaxDuration}
    /\ pan_call[1].t <= pan_call[1].duration
    /\ zoom_call = None
    /\ color_call = None

PanRight ==
    /\ pan_call # None
    /\ pan_call[1].out = None
    /\ LET c == pan_call[1]
       IN  pan_call' =
             Some([c EXCEPT !.out = Some(pan_right(c.frame, c.t, c.duration))])
    /\ UNCHANGED <<pipeline_vars, zoom_call, color_call>>

SpecPan == InitPan /\ [][PanRight]_vars

\* ---- base_color, lines 35-39.

MaxHash == 250

ColorModulus == 200

ColorFloor == 50

\* The remainder of the truncating division, with the sign of a.
PyMod_Trunc(a, b) ==
    IF a >= 0 THEN a - b * (a \div b) ELSE 0 - ((0 - a) - b * ((0 - a) \div b))

\* Python's a % b for b > 0: the remainder of the floor division.
PyMod(a, b) == a - b * (a \div b)

\* The three channels of base_color for hash(prompt) = hv.
base_color(hv) ==
    <<PyMod(hv, ColorModulus) + ColorFloor,
      PyMod(hv * 2, ColorModulus) + ColorFloor,
      PyMod(hv * 3, ColorModulus) + ColorFloor>>

InitColor ==
    /\ PipelineIdle
    /\ color_call \in
         {Some([hash |-> hv, out |-> None]) : hv \in (0 - MaxHash)..MaxHash}
    /\ zoom_call = None
    /\ pan_call = None

BaseColor ==
    /\ color_call # None
    /\ color_call[1].out = None
    /\ color_call' =
         Some([color_call[1] EXCEPT !.out = Some(base_color(color_call[1].hash))])
    /\ UNCHANGED <<pipeline_vars, zoom_call, pan_call>>

SpecColor == InitColor /\ [][BaseColor]_vars

----------------------------------------------------------------------------
\* Shorthands for the claims about generate_video.

\* The music block was entered: a path was given and the file exists.
MusicAttempted == background_music # None /\ music_file # None

\* The music block ran to its end: the timeline's audio holds the music.
MusicAttached ==
    /\ final_clip # None
    /\ final_clip[1].audio # None
    /\ \E l \in final_clip[1].audio[1] : l.kind = "music"

\* Control is past the music block.
PastMusic == pc \in {"export", "done"}

\* The run has not stopped short of the return: it has returned, or a step
\* of generate_video is enabled.
Running == pc = "done" \/ ENABLED Next

\* text_to_speech returned False for a non-empty entry that has a scene.
TtsFailedAt(k) ==
    /\ voice_over_texts # None
    /\ k <= Len(voice_over_texts[1])
    /\ voice_over_texts[1][k] # ""
    /\ k <= Len(voice_files)
    /\ voice_files[k] = None

\* The voice file of scene k could not be loaded.
VoiceLoadFailedAt(k) ==
    /\ k <= Len(voice_files)
    /\ voice_files[k] # None
    /\ k <= Len(clips)
    /\ clips[k].audio = None

----------------------------------------------------------------------------
\* C1: a narration failure never aborts generate_video. Whatever
\* text_to_speech meets (no engine, a runtime error) and whether or not a
\* voice file loads, no exception leaves the function, the run goes on to the
\* export, and the timeline holds one clip per prompt.
C1_NarrationNeverAborts ==
    /\ pc # "raised"
    /\ Running
    /\ final_clip # None => Len(final_clip[1].clips) = Len(prompts)
    /\ pc = "done" => /\ exports = 1
                      /\ final_clip # None

\* A finished run in which text_to_speech failed for one scene and the voice
\* file of another scene did not load.
C1_Witness ==
    /\ pc = "done"
    /\ exports = 1
    /\ Len(prompts) = 2
    /\ \E k \in 1..2 : TtsFailedAt(k) /\ VoiceLoadFailedAt(3 - k)

----------------------------------------------------------------------------
\* C2: whenever background music is attached, the final audio track lasts
\* exactly as long as the timeline, with or without per-scene narration.
C2_FinalAudioMatchesTimeline ==
    (PastMusic /\ MusicAttached) =>
        AudioDuration(final_clip[1].audio[1]) = final_clip[1].duration

\* What the code does guarantee: the music layer is fitted to the timeline
\* (looped when shorter, trimmed when longer), and the track is as long as
\* the timeline unless a narration runs past the timeline's end.
MusicLayerFitsTimeline ==
    (PastMusic /\ MusicAttached) =>
        /\ \A l \in final_clip[1].audio[1] :
              l.kind = "music" => l.start = 0 /\ l.dur = final_clip[1].duration
        /\ music[1].loops > 1 => music_file[1] < final_clip[1].duration
        /\ (\A l \in final_clip[1].audio[1] :
                l.start + l.dur <= final_clip[1].duration)
             => AudioDuration(final_clip[1].audio[1]) = final_clip[1].duration

----------------------------------------------------------------------------
\* C3: a failure at any step of the background-music attachment is caught:
\* no exception leaves generate_video, the export runs, the timeline's audio
\* is what it was when the attachment began, and the output path is returned.
C3_MusicFailureNonFatal ==
    /\ pc # "raised"
    /\ Running
    /\ (PastMusic /\ MusicAttempted /\ ~MusicAttached) =>
          final_clip[1].audio = audio_before
    /\ pc = "done" => exports = 1 /\ returned = Some("output_path")

\* A finished run with narration whose music attachment failed at the last
\* step, the mixing, after the music was loaded, fitted and scaled.
C3_Witness ==
    /\ pc = "done"
    /\ MusicAttempted
    /\ ~MusicAttached
    /\ music # None
    /\ music[1].scaled
    /\ audio_before # None
    /\ final_clip[1].audio = audio_before
    /\ returned = Some("output_path")

----------------------------------------------------------------------------
\* C4: attached music is layered over the narration and never replaces it.
\* With narration on the timeline the final audio holds every narration
\* layer and the music; without narration the music is the only layer; and
\* when no path is given or the file does not exist the audio is unchanged.
C4_MusicLayering ==
    PastMusic =>
        /\ MusicAttached =>
              LET track == final_clip[1].audio[1]
                  narration == {l \in track : l.kind = "narration"}
                  musics == {l \in track : l.kind = "music"}
              IN  /\ Cardinality(musics) = 1
                  /\ \A l \in musics : l.start = 0
                  /\ narration = IF audio_before = None THEN {}
                                 ELSE audio_before[1]
        /\ ~MusicAttempted => final_clip[1].audio = audio_before

\* A finished run with music attached over the narration of two scenes.
C4_Witness ==
    /\ pc = "done"
    /\ MusicAttached
    /\ audio_before # None
    /\ Cardinality(audio_before[1]) = 2
    /\ Cardinality(final_clip[1].audio[1]) = 3

----------------------------------------------------------------------------
\* C5: parallel lists of any length never raise and fall back per index.
\* Scene i has the overlay, visual effect and camera effect of entry i of
\* the list when the list has one, and no overlay, "none" and "zoom" when i
\* is at or beyond the list's end; every prompt gets its scene.
C5_PerIndexDefaults ==
    /\ pc # "raised"
    /\ Running
    /\ \A k \in 1..Len(image_paths) :
          /\ image_paths[k].index = k - 1
          /\ image_paths[k].overlay =
                IF text_overlays # None /\ k <= Len(text_overlays[1])
                THEN Some(text_overlays[1][k]) ELSE None
          /\ image_paths[k].visual =
                IF k <= Len(visual_effects[1]) THEN visual_effects[1][k]
                ELSE "none"
    /\ \A k \in 1..Len(clips) :
          /\ clips[k].image = k - 1
          /\ clips[k].overlay = image_paths[k].overlay
          /\ clips[k].visual = image_paths[k].visual
          /\ clips[k].camera =
                IF k <= Len(camera_effects[1]) THEN camera_effects[1][k]
                ELSE "zoom"
    /\ final_clip # None => /\ final_clip[1].clips = clips
                            /\ Len(clips) = Len(prompts)

\* A finished run of two prompts with one-entry overlay and visual-effect
\* lists and an empty camera-effect list: scene 0 uses the entries, scene 1
\* the defaults.
C5_Witness ==
    /\ pc = "done"
    /\ Len(prompts) = 2
    /\ text_overlays = Some(<<"caption">>)
    /\ visual_effects = Some(<<"blur">>)
    /\ camera_effects = Some(<<>>)
    /\ final_clip[1].clips[1].overlay = Some("caption")
    /\ final_clip[1].clips[1].visual = "blur"
    /\ final_clip[1].clips[2].overlay = None
    /\ final_clip[1].clips[2].visual = "none"
    /\ final_clip[1].clips[1].camera = "zoom"
    /\ final_clip[1].clips[2].camera = "zoom"

----------------------------------------------------------------------------
\* C6: the stages run strictly in sequence. No clip exists before every
\* image does, the timeline is concatenated from the clips of all prompts,
\* the music block starts only on a concatenated timeline, and the export
\* happens once, after the music block, with nothing after it.
C6_StagesInSequence ==
    /\ Len(clips) > 0 => Len(image_paths) = Len(prompts)
    /\ final_clip # None => Len(clips) = Len(prompts)
    /\ (music # None \/ pc \in {"music_load", "music_fit", "music_volume",
                               "music_mix"}) => final_clip # None
    /\ pc = "export" => final_clip # None /\ exports = 0
    /\ exports > 0 => pc = "done" /\ exports = 1
    /\ pc = "done" => exports = 1 /\ ~ENABLED Next

\* A finished run of two prompts whose music was mixed in before the export.
C6_Witness ==
    /\ pc = "done"
    /\ exports = 1
    /\ Len(prompts) = 2
    /\ Len(image_paths) = 2
    /\ Len(clips) = 2
    /\ MusicAttached

----------------------------------------------------------------------------
\* C10: narration stays aligned with its scene. The clip of scene i carries
\* audio only if voice_over_texts has a non-empty entry i for which
\* text_to_speech succeeded, the audio is the one synthesized from entry i,
\* and on the timeline it starts where scene i starts; entries at or beyond
\* the prompt count are attached to no scene.
C10_NarrationAligned ==
    /\ \A k \in 1..Len(clips) :
          clips[k].audio # None =>
              /\ voice_over_texts # None
              /\ k <= Len(voice_over_texts[1])
              /\ voice_over_texts[1][k] # ""
              /\ temp_dir[k - 1] # None
              /\ clips[k].audio[1].src = k - 1
    /\ (final_clip # None /\ audio_before # None) =>
          \A l \in audio_before[1] :
              /\ l.src \in 0..(Len(prompts) - 1)
              /\ l.start = l.src * scene_duration
    /\ \A k \in DOMAIN temp_dir :
          temp_dir[k] # None => temp_dir[k] = Some(k)

\* A finished run of two prompts and three narration entries: the first
\* failed, the second is attached to scene 1, the third was synthesized and
\* is attached to nothing.
C10_Witness ==
    /\ pc = "done"
    /\ Len(prompts) = 2
    /\ voice_over_texts # None
    /\ Len(voice_over_texts[1]) = 3
    /\ TtsFailedAt(1)
    /\ clips[1].audio = None
    /\ clips[2].audio # None
    /\ clips[2].audio[1].src = 1
    /\ temp_dir[2] # None

----------------------------------------------------------------------------
\* Shorthands for the claims about zoom_in.

\* The factor is 1.0 at t = 0 and 1.2 at t = duration, never below 1.0, and
\* the crop window lies inside the h x w frame.
ZoomWithinFrame(c) ==
    LET o == c.out[1]
        z == o.zoom_factor
    IN  /\ z[1] >= z[2]
        /\ c.t = 0 => /\ z[1] = z[2]
                      /\ o.new_h = c.h /\ o.new_w = c.w
                      /\ o.top = 0 /\ o.left = 0
        /\ c.t = c.duration => 5 * z[1] = 6 * z[2]
        /\ 0 <= o.top
        /\ o.top + o.new_h <= c.h
        /\ 0 <= o.left
        /\ o.left + o.new_w <= c.w
        /\ o.new_h >= 0
        /\ o.new_w >= 0

\* C7 as stated: for every frame size and every t in [0, duration] the zoom
\* factor runs from 1.0 to 1.2, the crop window lies inside the frame, and
\* the window is at least one pixel high and wide.
C7_ZoomCropNonEmpty ==
    (zoom_call # None /\ zoom_call[1].out # None) =>
        /\ ZoomWithinFrame(zoom_call[1])
        /\ zoom_call[1].out[1].new_h >= 1
        /\ zoom_call[1].out[1].new_w >= 1

\* C7 amended: the factor and the bounds hold for every frame size; the
\* window is at least one pixel high when h >= 2 and at least one pixel wide
\* when w >= 2, and a dimension of one pixel is cropped to nothing as soon
\* as t > 0.
C7_ZoomCropInsideFrame ==
    (zoom_call # None /\ zoom_call[1].out # None) =>
        LET c == zoom_call[1]
            o == c.out[1]
        IN  /\ ZoomWithinFrame(c)
            /\ c.h >= 2 => o.new_h >= 1
            /\ c.w >= 2 => o.new_w >= 1
            /\ (c.h = 1 /\ c.t > 0) => o.new_h = 0
            /\ (c.w = 1 /\ c.t > 0) => o.new_w = 0

\* The full-size frame at t = duration: zoomed by 1.2 to the centred
\* 1600 x 900 window.
C7_Witness ==
    /\ zoom_call # None
    /\ zoom_call[1].out # None
    /\ zoom_call[1].h = FrameH
    /\ zoom_call[1].w = FrameW
    /\ zoom_call[1].t = zoom_call[1].duration
    /\ zoom_call[1].out[1].new_h = 900
    /\ zoom_call[1].out[1].new_w = 1600
    /\ zoom_call[1].out[1].top = 90
    /\ zoom_call[1].out[1].left = 160

----------------------------------------------------------------------------
\* C8: the pan shift is 0 at t = 0 with the frame unchanged; it is the
\* integer part of (t / duration) * w * 0.1, does not decrease with t and
\* never exceeds a tenth of w; the output is the input with its columns
\* rotated by the shift, so every input column occurs exactly once.
C8_PanWraps ==
    (pan_call # None /\ pan_call[1].out # None) =>
        LET c == pan_call[1]
            o == c.out[1]
            w == Len(c.frame)
            sh == o.shift
        IN  /\ c.t = 0 => sh = 0 /\ o.frame = c.frame
            /\ sh * 10 * c.duration <= c.t * w
            /\ c.t * w < (sh + 1) * 10 * c.duration
            /\ \A t2 \in 0..c.t : PanShift(t2, c.duration, w) <= sh
            /\ sh >= 0
            /\ 10 * sh <= w
            /\ Len(o.frame) = w
            /\ \A j \in 1..w : o.frame[j] = c.frame[((j - 1 + sh) % w) + 1]
            /\ {o.frame[j] : j \in 1..w} = {c.frame[j] : j \in 1..w}

\* The full-width frame at t = duration: shifted by 192 columns, the first
\* output column being input column 193 and the last one input column 192.
C8_Witness ==
    /\ pan_call # None
    /\ pan_call[1].out # None
    /\ Len(pan_call[1].frame) = FrameW
    /\ pan_call[1].t = pan_call[1].duration
    /\ pan_call[1].out[1].shift = 192
    /\ pan_call[1].out[1].frame[1] = 193
    /\ pan_call[1].out[1].frame[FrameW] = 192

----------------------------------------------------------------------------
\* C9: for every value of the prompt's hash, negative ones included, each
\* channel of the base colour lies in 50..249.
C9_ChannelsInRange ==
    (color_call # None /\ color_call[1].out # None) =>
        \A ch \in 1..3 :
            /\ color_call[1].out[1][ch] >= 50
            /\ color_call[1].out[1][ch] <= 249
            /\ (color_call[1].out[1][ch] - 50 - ch * color_call[1].hash)
                  % 200 = 0

\* A negative hash: -1 gives the channels 249, 248 and 247.
C9_Witness ==
    /\ color_call # None
    /\ color_call[1].hash = 0 - 1
    /\ color_call[1].out = Some(<<249, 248, 247>>)

====
